---- MODULE Spec2Model ----
(***************************************************************************)
(* Model of the Revision controller, pkg/controller/revision/controller.go *)
(*                                                                         *)
(* The controller watches Revision objects, puts their keys on a rate      *)
(* limited work queue and has a pool of workers drive each key through     *)
(* syncHandler, which creates (or, when the deletion marker is set,        *)
(* deletes) a deployment, an autoscaler, a configmap and a service, and    *)
(* then writes the Revision's status.                                      *)
(*                                                                         *)
(* Every call a worker makes to the resource API is one step, so other     *)
(* workers, the informer and other writers interleave between calls.       *)
(***************************************************************************)
EXTENDS Integers, Sequences, FiniteSets, TLC

\* ------------------------------------------------------------------ bounds
NumWorkers == 2      \* threadiness passed to Run
MaxFaults == 1       \* injected resource API failures in one behaviour
MaxExternal == 1     \* writes to Revisions by other clients in one behaviour
MaxRequeues == 1     \* the rate limiter's per key counter saturates here

Workers == 1..NumWorkers
Revisions == {"r1"}
\* What a worker may find on the queue besides a Revision's key: a string that
\* SplitMetaNamespaceKey refuses, and an object that is no string. No enqueue
\* of this controller produces either.
MalformedKey == "a/b/c"
NotAString == "(not a string)"
BadItems == {MalformedKey, NotAString}
Items == Revisions \cup BadItems
IsString(obj) == obj # NotAString
SplitFails(key) == key = MalformedKey
ChildKinds == <<"deployment", "autoscaler", "configmap", "service">>
Kinds == {"pod"} \cup {ChildKinds[i] : i \in 1..Len(ChildKinds)}

\* ------------------------------------------------------------------ errors
\* An error is <<code, verb, kind>>; the nil error is the empty tuple.
Nil == <<>>
Err(code, verb, kind) == <<code, verb, kind>>
IsNotFound(e) == e # Nil /\ e[1] = "NotFound"

\* ------------------------------------------------------------------ state
VARIABLES
  revStore,     \* the Revisions held by the resource API
  revCache,     \* the informer's indexer, read through c.lister
  pendingEv,    \* Revisions whose latest change the informer has not delivered
  children,     \* the child objects held by the resource API
  workqueue,    \* c.workqueue
  run,          \* where Run is: "waitsync", "running", "returned"
  runErr,       \* what Run returned
  stopCh,       \* TRUE once stopCh is closed
  crashed,      \* TRUE once a panic has taken the process down
  pc,           \* each worker's position
  item,         \* the key a worker took off the queue
  u,            \* the *Revision a worker got from the lister
  alias,        \* TRUE while u is still the object the indexer holds
  newu,         \* the object updateStatus fetched
  stale,        \* TRUE once the stored object changed after that fetch
  res,          \* what the steps of this cycle returned
  ops,          \* the resource API calls of this cycle and their outcomes
  seen,         \* the children present when the cycle took its key
  faults,       \* injected failures so far
  externals,    \* external writes so far
  lastCycle,    \* per Revision, the summary of the last finished cycle
  owed,         \* keys enqueued and not yet taken by a worker since
  asEnqueued,   \* the branch the Revision called for when its key was enqueued
  synced,       \* what c.synced (the informer's HasSynced) returns
  lastCall      \* the last call of a function made from outside the controller

vars == <<revStore, revCache, pendingEv, children, workqueue, run, runErr,
          stopCh, crashed, pc, item, u, alias, newu, stale, res, ops, seen,
          faults, externals, lastCycle, owed, asEnqueued, synced, lastCall>>

storeVars == <<revStore, pendingEv, stale>>
runVars == <<run, runErr, stopCh>>

\* --------------------------------------------------------------- Revisions
NoConds == <<>>
Condition(t, s, r) == [type |-> t, status |-> s, reason |-> r]
\* fin is the finalizer list: a Revision is made with the "controller"
\* finalizer that removeFinalizers looks for.
NoRev == [exists |-> FALSE, marker |-> FALSE, spec |-> 0, fin |-> <<>>,
          conds |-> NoConds, svc |-> <<>>]
NewRev == [exists |-> TRUE, marker |-> FALSE, spec |-> 0,
           fin |-> <<"controller">>, conds |-> NoConds, svc |-> <<>>]
\* What of a Revision is not its status block.
NonStatus(o) == [exists |-> o.exists, marker |-> o.marker, spec |-> o.spec,
                 fin |-> o.fin]
Status(o) == [conds |-> o.conds, svc |-> o.svc]

\* util.GetElaK8SServiceNameForRevision and its siblings: a child's name is
\* derived from the Revision's name alone.
ChildName(kind, r) == <<kind, r>>
Child(kind, r, owner) == [name |-> ChildName(kind, r), owner |-> owner]
Present(kids, kind, r) == \E c \in kids : c.name = ChildName(kind, r)
PresentKinds(kids, r) == {k \in Kinds : Present(kids, k, r)}

\* ------------------------------------------------------- the work queue
\* client-go's workqueue.Type, DelayingQueue and RateLimitingQueue, by what
\* their methods do to the queue's fields.
EmptyQueue == [queue |-> <<>>, dirty |-> {}, processing |-> {},
               shuttingDown |-> FALSE, waiting |-> {},
               failures |-> [k \in Items |-> 0]]

Min(a, b) == IF a < b THEN a ELSE b

Add(q, k) ==
  IF q.shuttingDown \/ k \in q.dirty THEN q
  ELSE IF k \in q.processing THEN [q EXCEPT !.dirty = @ \cup {k}]
  ELSE [q EXCEPT !.dirty = @ \cup {k}, !.queue = Append(@, k)]

AddRateLimited(q, k) ==
  LET counted == [q EXCEPT !.failures[k] = Min(@ + 1, MaxRequeues)]
  IN IF q.shuttingDown THEN counted
     ELSE [counted EXCEPT !.waiting = @ \cup {k}]

QueueGet(q) ==
  [q EXCEPT !.queue = Tail(@), !.processing = @ \cup {Head(q.queue)},
            !.dirty = @ \ {Head(q.queue)}]

\* (variant: Done that never puts a key added meanwhile back on the queue)
DoneDropsDirty(q, k) == [q EXCEPT !.processing = @ \ {k}]

Done(q, k) ==
  IF k \in q.dirty
  THEN [q EXCEPT !.processing = @ \ {k}, !.queue = Append(@, k)]
  ELSE [q EXCEPT !.processing = @ \ {k}]

Forget(q, k) == [q EXCEPT !.failures[k] = 0]

ShutDown(q) == [q EXCEPT !.shuttingDown = TRUE]

\* ------------------------------------------------------------------- Init
NotRun == <<"notrun">>
NoRes == [deployment |-> NotRun, autoscaler |-> NotRun, configmap |-> NotRun,
          service |-> NotRun, status |-> NotRun, ret |-> NotRun,
          path |-> "none", wrote |-> <<>>]
NoCycle == [path |-> "none", failed |-> FALSE, faulty |-> FALSE,
            calls |-> <<>>, secondary |-> {}, wrote |-> <<>>]

\* No function has been called from outside yet.
NoCall == [fn |-> "none", arg |-> <<>>, ret |-> <<>>]

\* A Revision may be in the store before the controller starts, its deletion
\* asked for or not; the informer then has its first listing to deliver.
InitExceptQueue ==
  /\ revStore \in [Revisions -> {NoRev, NewRev, [NewRev EXCEPT !.marker = TRUE]}]
  /\ revCache = [r \in Revisions |-> NoRev]
  /\ pendingEv = [r \in Revisions |-> revStore[r].exists]
  \* Another client may have made an object under a child's name already.
  /\ children \in {{}} \cup {{Child("deployment", r, "other")} : r \in Revisions}
  /\ run = "waitsync"
  /\ runErr = Nil
  /\ stopCh = FALSE
  /\ crashed = FALSE
  /\ pc = [w \in Workers |-> "off"]
  /\ item = [w \in Workers |-> ""]
  /\ u = [w \in Workers |-> NoRev]
  /\ alias = [w \in Workers |-> FALSE]
  /\ newu = [w \in Workers |-> NoRev]
  /\ stale = [w \in Workers |-> FALSE]
  /\ res = [w \in Workers |-> NoRes]
  /\ ops = [w \in Workers |-> <<>>]
  /\ seen = [w \in Workers |-> {}]
  /\ faults = 0
  /\ externals = 0
  /\ lastCycle = [r \in Items |-> NoCycle]
  /\ owed = {}
  /\ asEnqueued = [r \in Revisions |-> "none"]
  /\ synced = FALSE
  /\ lastCall = NoCall

\* NewController: the queue is created empty.
Init == InitExceptQueue /\ workqueue = EmptyQueue

\* The same with one item on the queue already that is no Revision's key, to
\* put processNextWorkItem and syncHandler before every kind of item.
ItemInit ==
  /\ InitExceptQueue
  /\ \E obj \in BadItems : workqueue = Add(EmptyQueue, obj)

\* ------------------------------------------------- the resource API
\* Other clients of the resource API: the Revision's owner creates it,
\* changes its spec, asks for its deletion (which sets the deletion marker),
\* and the store removes a marked Revision once its finalizers are cleared.
\* A write gives the object a new resourceVersion, so an Update of a copy
\* fetched earlier is refused with a conflict.
StoreWrite(r, obj, writer) ==
  /\ revStore' = [revStore EXCEPT ![r] = obj]
  /\ pendingEv' = [pendingEv EXCEPT ![r] = TRUE]
  /\ stale' = [w \in Workers |->
                 /\ w # writer
                 /\ stale[w] \/ (item[w] = r /\ pc[w] = "usUpdate")]

External ==
  /\ ~crashed
  /\ externals < MaxExternal
  /\ externals' = externals + 1
  /\ UNCHANGED <<revCache, children, workqueue, runVars, crashed, pc, item, u,
                 alias, newu, res, ops, seen, faults, lastCycle, owed,
                 asEnqueued, synced, lastCall>>

ClientCreate(r) ==
  /\ ~revStore[r].exists
  /\ StoreWrite(r, NewRev, 0)
  /\ External

ClientUpdateSpec(r) ==
  /\ revStore[r].exists
  /\ StoreWrite(r, [revStore[r] EXCEPT !.spec = 1 - @], 0)
  /\ External

ClientDelete(r) ==
  /\ revStore[r].exists /\ ~revStore[r].marker
  /\ StoreWrite(r, [revStore[r] EXCEPT !.marker = TRUE], 0)
  /\ External

StoreRemove(r) ==
  /\ revStore[r].exists /\ revStore[r].marker
  /\ StoreWrite(r, NoRev, 0)
  /\ External

\* What the calls on the child clients return and do. A call fails with a
\* server error when a failure is injected (fail = TRUE).
FaultChoices == IF faults < MaxFaults THEN {FALSE, TRUE} ELSE {FALSE}

GetErr(kids, kind, r, fail) ==
  IF fail THEN Err("ServerError", "get", kind)
  ELSE IF Present(kids, kind, r) THEN Nil
  ELSE Err("NotFound", "get", kind)

CreateErr(kids, kind, r, fail) ==
  IF fail THEN Err("ServerError", "create", kind)
  ELSE IF Present(kids, kind, r) THEN Err("AlreadyExists", "create", kind)
  ELSE Nil

DeleteErr(kids, kind, r, fail) ==
  IF fail THEN Err("ServerError", "delete", kind)
  ELSE IF Present(kids, kind, r) THEN Nil
  ELSE Err("NotFound", "delete", kind)

AfterCreate(kids, kind, r, owner, e) ==
  IF e = Nil THEN kids \cup {Child(kind, r, owner)} ELSE kids

AfterDelete(kids, kind, r, e) ==
  IF e = Nil THEN {c \in kids : c.name # ChildName(kind, r)} ELSE kids

Code(e) == IF e = Nil THEN "ok" ELSE e[1]

\* The call is recorded with its outcome, as a fake clientset records actions.
Called(w, verb, kind, e, fail) ==
  /\ ops' = [ops EXCEPT ![w] = Append(@, <<verb, kind, Code(e)>>)]
  /\ faults' = IF fail THEN faults + 1 ELSE faults

\* --------------------------------------------------------- the informer
\* cache.MetaNamespaceKeyFunc: the namespace/name of an object that has
\* metadata, which every Revision has, and an error for one that has none.
Unkeyed == "(no metadata)"
MetaNamespaceKeyFunc(obj) ==
  IF obj = Unkeyed THEN <<"", Err("NoMeta", "key", "object")>> ELSE <<obj, Nil>>

\* enqueueRevision: an object whose key cannot be computed is reported and
\* dropped; any other has its key added to the queue, rate limited.
enqueueRevision(q, obj) ==
  IF MetaNamespaceKeyFunc(obj)[2] # Nil THEN q
  ELSE AddRateLimited(q, MetaNamespaceKeyFunc(obj)[1])

\* The notification the informer makes when it delivers r's stored state.
Notification(r) ==
  IF ~revStore[r].exists THEN "delete"
  ELSE IF revCache[r].exists THEN "update" ELSE "add"

\* (variant: UpdateFunc is not registered)
HandlersAddOnly == {"add"}

\* (variant: DeleteFunc is registered as well)
HandlersWithDelete == {"add", "update", "delete"}

\* The notifications NewController registers enqueueRevision for: AddFunc and
\* UpdateFunc, the latter with the new object.
Handlers == {"add", "update"}

\* The informer delivers the latest stored state of r to the indexer and calls
\* the handler registered for the notification, if there is one.
InformerDeliver(r) ==
  /\ ~crashed
  /\ pendingEv[r]
  /\ pendingEv' = [pendingEv EXCEPT ![r] = FALSE]
  /\ revCache' = [revCache EXCEPT ![r] = revStore[r]]
  /\ alias' = [w \in Workers |-> alias[w] /\ item[w] # r]
  /\ IF Notification(r) \in Handlers
     THEN /\ workqueue' = enqueueRevision(workqueue, r)
          /\ owed' = IF workqueue.shuttingDown THEN owed ELSE owed \cup {r}
          /\ asEnqueued' = IF workqueue.shuttingDown \/ r \in owed
                            THEN asEnqueued
                            ELSE [asEnqueued EXCEPT ![r] =
                                    IF revStore[r].marker THEN "delete"
                                    ELSE "create"]
     ELSE UNCHANGED <<workqueue, owed, asEnqueued>>
  /\ synced' = (synced \/ \A r2 \in Revisions \ {r} : ~pendingEv[r2])
  /\ UNCHANGED <<revStore, stale, children, runVars, crashed, pc, item, u, newu,
                 res, ops, seen, faults, externals, lastCycle, lastCall>>

\* The informer's first listing has been delivered whole: HasSynced turns true.
InformerSync ==
  /\ ~crashed
  /\ ~synced
  /\ \A r \in Revisions : ~pendingEv[r]
  /\ synced' = TRUE
  /\ UNCHANGED <<revStore, revCache, pendingEv, stale, children, workqueue,
                 runVars, crashed, pc, item, u, alias, newu, res, ops, seen,
                 faults, externals, lastCycle, owed, asEnqueued, lastCall>>

\* The delaying queue's timer: a key whose back-off has passed is added.
waitingLoop(k) ==
  /\ ~crashed
  /\ k \in workqueue.waiting
  /\ workqueue' = Add([workqueue EXCEPT !.waiting = @ \ {k}], k)
  /\ UNCHANGED <<revStore, revCache, pendingEv, stale, children, runVars,
                 crashed, pc, item, u, alias, newu, res, ops, seen, faults,
                 externals, lastCycle, owed,
                 asEnqueued, synced, lastCall>>

\* ------------------------------------------------------------------- Run
CloseStopCh ==
  /\ ~crashed
  /\ ~stopCh
  /\ stopCh' = TRUE
  /\ UNCHANGED <<revStore, revCache, pendingEv, stale, children, workqueue,
                 run, runErr, crashed, pc, item, u, alias, newu, res, ops,
                 seen, faults, externals, lastCycle, owed,
                 asEnqueued, synced, lastCall>>

\* (variant: the workers are started without waiting for the cache)
WaitForCacheSyncNoWait(stopped, hasSynced) ==
  IF stopped THEN "failed" ELSE "ok"

\* cache.WaitForCacheSync(stopCh, c.synced): false when stopCh is closed first,
\* true once the informer has synced, and waiting until one of the two.
WaitForCacheSync(stopped, hasSynced) ==
  IF stopped THEN "failed" ELSE IF hasSynced THEN "ok" ELSE "wait"

Run ==
  /\ ~crashed
  /\ UNCHANGED <<revStore, revCache, pendingEv, stale, children, stopCh,
                 crashed, item, u, alias, newu, res, ops, seen, faults,
                 externals, lastCycle, owed,
                 asEnqueued, synced, lastCall>>
  /\ \/ /\ run = "waitsync" /\ WaitForCacheSync(stopCh, synced) = "failed"
        /\ run' = "returned"
        /\ runErr' = Err("failed to wait for caches to sync", "run", "cache")
        /\ workqueue' = ShutDown(workqueue)
        /\ UNCHANGED pc
     \/ /\ run = "waitsync" /\ WaitForCacheSync(stopCh, synced) = "ok"
        /\ run' = "running"
        /\ pc' = [w \in Workers |-> "get"]
        /\ UNCHANGED <<runErr, workqueue>>
     \/ /\ run = "running" /\ stopCh
        /\ run' = "returned"
        /\ workqueue' = ShutDown(workqueue)
        /\ UNCHANGED <<runErr, pc>>

\* ------------------------------------------------- processNextWorkItem
\* The queue once a worker has taken the head item: Done is deferred to the
\* end of the item's processing.
\* (variant: Done called right after Get instead of deferred)
StartItemDoneAtOnce(q) == Done(QueueGet(q), Head(q.queue))

StartItem(q) == QueueGet(q)

\* (variant: Done is left out when syncHandler returned an error)
FinishCallsNoDoneOnError(ret) ==
  IF ret = Nil THEN <<"Forget", "Done">> ELSE <<>>

\* (variant: Forget is called whatever syncHandler returned)
FinishCallsAlwaysForget(ret) == <<"Forget", "Done">>

\* The queue methods called at the end of an item's processing: Forget when
\* syncHandler returned nil, and then the deferred Done.
FinishCalls(ret) == IF ret = Nil THEN <<"Forget", "Done">> ELSE <<"Done">>

QueueCall(q, key, call) ==
  IF call = "Forget" THEN Forget(q, key) ELSE Done(q, key)

RECURSIVE QueueCalls(_, _, _)
QueueCalls(q, key, calls) ==
  IF calls = <<>> THEN q
  ELSE QueueCalls(QueueCall(q, key, Head(calls)), key, Tail(calls))

FinishItem(q, key, ret) == QueueCalls(q, key, FinishCalls(ret))

\* A store failure: a server error, a conflict, or the Revision gone from the
\* store. A child that is not found, or is there already, is no failure.
Failure(op) ==
  \/ op[3] \in {"ServerError", "Conflict"}
  \/ op[3] = "NotFound" /\ op[2] = "revision"
Faulty(calls) == \E i \in 1..Len(calls) : Failure(calls[i])

Secondary(r) ==
  {k \in {"autoscaler", "configmap", "service"} : r[k] # NotRun /\ r[k] # Nil}

Summary(w) ==
  [path |-> res[w].path, failed |-> res[w].ret # Nil,
   faulty |-> Faulty(ops[w]), calls |-> FinishCalls(res[w].ret),
   secondary |-> Secondary(res[w]), wrote |-> res[w].wrote]

Idle(w) ==
  /\ item' = [item EXCEPT ![w] = ""]
  /\ u' = [u EXCEPT ![w] = NoRev]
  /\ alias' = [alias EXCEPT ![w] = FALSE]
  /\ newu' = [newu EXCEPT ![w] = NoRev]
  /\ res' = [res EXCEPT ![w] = NoRes]
  /\ ops' = [ops EXCEPT ![w] = <<>>]
  /\ seen' = [seen EXCEPT ![w] = {}]

\* (variant: false is returned when the item's processing returned an error)
processNextWorkItemRetFalseOnError(shutdown, err) == ~shutdown /\ err = Nil

\* What processNextWorkItem returns: false when Get reported the shutdown, and
\* true after an item, whatever its processing returned.
processNextWorkItemRet(shutdown, err) == ~shutdown

\* runWorker: the loop goes on while processNextWorkItem returns true.
runWorker(ret) == IF ret THEN "get" ELSE "exit"

processNextWorkItem(w) ==
  /\ ~crashed
  /\ UNCHANGED <<revStore, revCache, pendingEv, stale, children, runVars,
                 crashed, faults, externals, asEnqueued, synced, lastCall>>
  /\ \/ /\ pc[w] = "get"
        /\ Len(workqueue.queue) > 0
        /\ LET key == Head(workqueue.queue) IN
           /\ workqueue' = StartItem(workqueue)
           /\ item' = [item EXCEPT ![w] = key]
           /\ seen' = [seen EXCEPT ![w] = PresentKinds(children, key)]
           /\ owed' = owed \ {key}
        \* An item that is no string is forgotten and nil returned at once.
        /\ IF IsString(Head(workqueue.queue))
           THEN /\ pc' = [pc EXCEPT ![w] = "sync"]
                /\ UNCHANGED res
           ELSE /\ pc' = [pc EXCEPT ![w] = "done"]
                /\ res' = [res EXCEPT ![w] =
                             [@ EXCEPT !.ret = Nil, !.path = "invalid"]]
        /\ UNCHANGED <<u, alias, newu, ops, lastCycle>>
     \/ /\ pc[w] = "get"
        /\ Len(workqueue.queue) = 0 /\ workqueue.shuttingDown
        /\ pc' = [pc EXCEPT ![w] = runWorker(processNextWorkItemRet(TRUE, Nil))]
        /\ UNCHANGED <<workqueue, item, u, alias, newu, res, ops, seen,
                       lastCycle, owed>>
     \/ /\ pc[w] = "done"
        /\ workqueue' = FinishItem(workqueue, item[w], res[w].ret)
        /\ lastCycle' = [lastCycle EXCEPT ![item[w]] = Summary(w)]
        /\ pc' = [pc EXCEPT ![w] =
                    runWorker(processNextWorkItemRet(FALSE, res[w].ret))]
        /\ Idle(w)
        /\ UNCHANGED owed

\* ------------------------------------------------------------ syncHandler
\* reconcileWithImage: the branch on the deletion timestamp of the object the
\* lister returned.
\* (variant: the deletion timestamp is not looked at)
reconcileWithImageAlwaysCreates(rev) == "create"

reconcileWithImage(rev) == IF ~rev.marker THEN "create" ELSE "delete"

FirstPc(path) == IF path = "create" THEN "rdGet" ELSE "ddGet"

\* (variant: every error of the lister drops the key)
listerGetRetDropsAll(e) == Nil

\* What syncHandler returns when the lister's Get returned the error e.
listerGetRet(e) == IF IsNotFound(e) THEN Nil ELSE e

\* (variant: the namespace error is returned as the cycle's error)
OnNamespaceErrorReturns(e) == "return"

\* What syncHandler does when GetOrCreateRevisionNamespace returns an error.
OnNamespaceError(e) == "panic"

syncHandler(w) ==
  /\ ~crashed
  /\ UNCHANGED <<revStore, revCache, pendingEv, stale, children, runVars,
                 item, newu, seen, externals, owed,
                 asEnqueued, synced, lastCall>>
  /\ \/ /\ pc[w] = "sync"
        \* A key that does not split, or a Revision the lister does not find:
        \* nil is returned.
        /\ IF SplitFails(item[w]) THEN TRUE ELSE ~revCache[item[w]].exists
        /\ res' = [res EXCEPT ![w] =
                     [@ EXCEPT !.ret = IF SplitFails(item[w]) THEN Nil
                                       ELSE listerGetRet(Err("NotFound", "get",
                                                             "cache")),
                               !.path = IF SplitFails(item[w]) THEN "malformed"
                                        ELSE "gone"]]
        /\ pc' = [pc EXCEPT ![w] = "done"]
        /\ UNCHANGED <<workqueue, crashed, u, alias, ops, faults, lastCycle>>
     \/ /\ pc[w] = "sync"
        \* The lister fails with an error that is not not-found: it is returned.
        /\ ~SplitFails(item[w])
        /\ TRUE \in FaultChoices
        /\ Called(w, "get", "cache", Err("ServerError", "get", "cache"), TRUE)
        /\ res' = [res EXCEPT ![w] =
                     [@ EXCEPT !.ret = listerGetRet(Err("ServerError", "get",
                                                        "cache")),
                               !.path = "listerr"]]
        /\ pc' = [pc EXCEPT ![w] = "done"]
        /\ UNCHANGED <<workqueue, crashed, u, alias, lastCycle>>
     \/ /\ pc[w] = "sync"
        /\ ~SplitFails(item[w])
        /\ revCache[item[w]].exists
        /\ u' = [u EXCEPT ![w] = revCache[item[w]]]
        /\ alias' = [alias EXCEPT ![w] = TRUE]
        /\ pc' = [pc EXCEPT ![w] = "ns"]
        /\ UNCHANGED <<workqueue, crashed, res, ops, faults, lastCycle>>
     \/ /\ pc[w] = "ns"
        /\ Called(w, "ensure", "namespace", Nil, FALSE)
        /\ res' = [res EXCEPT ![w] = [@ EXCEPT !.path = reconcileWithImage(u[w])]]
        /\ pc' = [pc EXCEPT ![w] = FirstPc(reconcileWithImage(u[w]))]
        /\ UNCHANGED <<workqueue, crashed, u, alias, lastCycle>>
     \/ /\ pc[w] = "ns"
        /\ TRUE \in FaultChoices
        /\ Called(w, "ensure", "namespace",
                  Err("ServerError", "ensure", "namespace"), TRUE)
        /\ IF OnNamespaceError(Err("ServerError", "ensure", "namespace")) = "panic"
           THEN \* panic("Failed to create namespace"): the deferred Done runs
                \* and the process goes down.
                /\ workqueue' = Done(workqueue, item[w])
                /\ crashed' = TRUE
                /\ pc' = [pc EXCEPT ![w] = "panic"]
                /\ res' = [res EXCEPT ![w] = [@ EXCEPT !.path = "panic"]]
                /\ lastCycle' = [lastCycle EXCEPT ![item[w]] =
                                   [NoCycle EXCEPT !.path = "panic",
                                                   !.faulty = TRUE,
                                                   !.calls = <<"Done">>]]
           ELSE /\ pc' = [pc EXCEPT ![w] = "done"]
                /\ res' = [res EXCEPT ![w] =
                             [@ EXCEPT !.path = "nserr",
                                       !.ret = Err("ServerError", "ensure",
                                                   "namespace")]]
                /\ UNCHANGED <<workqueue, crashed, lastCycle>>
        /\ UNCHANGED <<u, alias>>

\* ----------------------------------------------------------- updateStatus
\* (variant: the first error of the cycle is returned)
createK8SResourcesRetFirstError(r) ==
  IF r.autoscaler # Nil THEN r.autoscaler
  ELSE IF r.configmap # Nil THEN r.configmap
  ELSE IF r.service # Nil THEN r.service
  ELSE r.status

\* What createK8SResources and deleteK8SResources return: updateStatus's error.
createK8SResourcesRet(r) == r.status
deleteK8SResourcesRet(r) == r.status

StatusReturned(r, e, written) ==
  LET r1 == [r EXCEPT !.status = e, !.wrote = written]
  IN [r1 EXCEPT !.ret = IF r.path = "create" THEN createK8SResourcesRet(r1)
                        ELSE deleteK8SResourcesRet(r1)]

\* (variant: the working copy is written as it is)
MergedBlind(fetched, working) == working

\* (variant: the working copy's spec is copied as well)
MergedWithSpec(fetched, working) ==
  [fetched EXCEPT !.conds = working.conds, !.svc = working.svc,
                  !.spec = working.spec]

\* newu.Status = u.Status on the freshly fetched object.
Merged(fetched, working) ==
  [fetched EXCEPT !.conds = working.conds, !.svc = working.svc]

RevGetErr(r, fail) ==
  IF fail THEN Err("ServerError", "get", "revision")
  ELSE IF ~revStore[r].exists THEN Err("NotFound", "get", "revision")
  ELSE Nil

RevUpdateErr(r, changed, fail) ==
  IF fail THEN Err("ServerError", "update", "revision")
  ELSE IF ~revStore[r].exists THEN Err("NotFound", "update", "revision")
  ELSE IF changed THEN Err("Conflict", "update", "revision")
  ELSE Nil

\* (variant: every Update gives the object a new version)
UpdateIsNewVersionAlways(stored, obj) == TRUE

\* Revisions(ns).Update with the object as it is stored already changes
\* nothing: the object keeps its resourceVersion and no notification follows.
UpdateIsNewVersion(stored, obj) == obj # stored

updateStatus(w) ==
  /\ ~crashed
  /\ UNCHANGED <<revCache, children, workqueue, runVars, crashed, item, u,
                 alias, seen, externals, lastCycle, owed,
                 asEnqueued, synced, lastCall>>
  /\ \/ /\ pc[w] = "usGet"
        /\ \E fail \in FaultChoices :
             LET e == RevGetErr(item[w], fail) IN
             /\ Called(w, "get", "revision", e, fail)
             /\ IF e # Nil
                THEN /\ res' = [res EXCEPT ![w] = StatusReturned(@, e, <<>>)]
                     /\ pc' = [pc EXCEPT ![w] = "done"]
                     /\ UNCHANGED newu
                ELSE /\ newu' = [newu EXCEPT ![w] = Merged(revStore[item[w]], u[w])]
                     /\ pc' = [pc EXCEPT ![w] = "usUpdate"]
                     /\ UNCHANGED res
        /\ UNCHANGED storeVars
     \/ /\ pc[w] = "usUpdate"
        /\ \E fail \in FaultChoices :
             LET e == RevUpdateErr(item[w], stale[w], fail) IN
             /\ Called(w, "update", "revision", e, fail)
             /\ IF e = Nil /\ UpdateIsNewVersion(revStore[item[w]], newu[w])
                THEN StoreWrite(item[w], newu[w], w)
                ELSE /\ stale' = [stale EXCEPT ![w] = FALSE]
                     /\ UNCHANGED <<revStore, pendingEv>>
             /\ res' = [res EXCEPT ![w] = StatusReturned(@, e,
                          IF e = Nil THEN <<Status(newu[w])>> ELSE <<>>)]
             /\ pc' = [pc EXCEPT ![w] = "done"]
        /\ UNCHANGED newu

\* ---------------------------------------------------- createK8SResources
\* metav1.NewControllerRef(u, controllerKind): a reference to the Revision.
NewControllerRef(r) == r
NoOwner == ""

\* (variant: the configmap is created as MakeNginxConfigMap returns it)
OwnerReferencesNotOnConfigMap(kind, r) ==
  IF kind = "configmap" THEN NoOwner ELSE NewControllerRef(r)

\* The owner references of the object a reconcile function creates: the
\* controller reference is appended to the payload of every kind.
OwnerReferences(kind, r) == NewControllerRef(r)

\* Writes through the pointer the lister returned: while the indexer still
\* holds that object, the write changes the indexer's object too.
WriteWorking(w, obj) ==
  /\ u' = [u EXCEPT ![w] = obj]
  /\ revCache' = IF alias[w] THEN [revCache EXCEPT ![item[w]] = obj]
                 ELSE revCache

\* (variant: the condition says the Revision is ready)
ReadyTrue(reason) == <<Condition("Ready", "True", reason)>>

\* The conditions both paths set: one Ready condition with status False.
Ready(reason) == <<Condition("Ready", "False", reason)>>

\* (variant: the deployment's error is logged like the others)
createNextPcNoAbort(kind, e) ==
  CASE kind = "deployment" -> "raGet"
    [] kind = "autoscaler" -> "rcGet"
    [] kind = "configmap" -> "rsGet"
    [] kind = "service" -> "usGet"

\* Where createK8SResources goes once reconcile-kind has returned e: only the
\* deployment's error makes it return.
createNextPc(kind, e) ==
  CASE kind = "deployment" -> IF e # Nil THEN "done" ELSE "raGet"
    [] kind = "autoscaler" -> "rcGet"
    [] kind = "configmap" -> "rsGet"
    [] kind = "service" -> "usGet"

\* (variant: the condition is appended to the ones the status has)
createStatusAppends(rev, key, e) ==
  [rev EXCEPT !.svc = IF e = Nil THEN ChildName("service", key) ELSE @,
              !.conds = @ \o <<Condition("Ready", "False", "Deploying")>>]

\* (variant: the service name is recorded whatever reconcileService returned)
createStatusAlwaysNames(rev, key, e) ==
  [rev EXCEPT !.svc = ChildName("service", key),
              !.conds = Ready("Deploying")]

\* (variant: the condition is not set)
createStatusNoCondition(rev, key, e) ==
  [rev EXCEPT !.svc = IF e = Nil THEN ChildName("service", key) ELSE @]

\* The status createK8SResources sets before updateStatus: the service name
\* when reconcileService returned no error, and the Deploying condition.
createStatus(rev, key, e) ==
  [rev EXCEPT !.svc = IF e = Nil THEN ChildName("service", key) ELSE @,
              !.conds = Ready("Deploying")]

createK8SResources(w, kind, e) ==
  /\ pc' = [pc EXCEPT ![w] = createNextPc(kind, e)]
  /\ res' = [res EXCEPT ![w] =
               [@ EXCEPT ![kind] = e,
                         !.ret = IF createNextPc(kind, e) = "done" THEN e ELSE @]]
  /\ IF createNextPc(kind, e) = "usGet"
     THEN WriteWorking(w, createStatus(u[w], item[w], e))
     ELSE UNCHANGED <<u, revCache>>

\* (variant: the deployment is created without looking at what Get returned)
reconcileDeploymentAlwaysCreates(e) ==
  IF e = Nil \/ IsNotFound(e) THEN "create" ELSE "fail"

reconcileDeploymentAfterGet(e) ==
  IF e = Nil THEN "found" ELSE IF IsNotFound(e) THEN "create" ELSE "fail"

reconcileDeployment(w) ==
  /\ ~crashed
  /\ UNCHANGED <<storeVars, workqueue, runVars, crashed, item, alias, newu,
                 seen, externals, lastCycle, owed,
                 asEnqueued, synced, lastCall>>
  /\ \/ /\ pc[w] = "rdGet"
        /\ \E fail \in FaultChoices :
             LET e == GetErr(children, "deployment", item[w], fail) IN
             /\ Called(w, "get", "deployment", e, fail)
             /\ IF reconcileDeploymentAfterGet(e) = "create"
                THEN /\ pc' = [pc EXCEPT ![w] = "rdPod"]
                     /\ UNCHANGED <<res, u, revCache>>
                ELSE createK8SResources(w, "deployment", e)
        /\ UNCHANGED children
     \/ /\ pc[w] = "rdPod"
        \* The pod is created first; whether that works is only logged.
        /\ \E fail \in FaultChoices :
             LET e == CreateErr(children, "pod", item[w], fail) IN
             /\ Called(w, "create", "pod", e, fail)
             /\ children' = AfterCreate(children, "pod", item[w],
                                     OwnerReferences("pod", item[w]), e)
        /\ pc' = [pc EXCEPT ![w] = "rdCreate"]
        /\ UNCHANGED <<res, u, revCache>>
     \/ /\ pc[w] = "rdCreate"
        /\ \E fail \in FaultChoices :
             LET e == CreateErr(children, "deployment", item[w], fail) IN
             /\ Called(w, "create", "deployment", e, fail)
             /\ children' = AfterCreate(children, "deployment", item[w],
                                     OwnerReferences("deployment", item[w]), e)
             /\ createK8SResources(w, "deployment", e)

reconcileAutoscalerAfterGet(e) ==
  IF e = Nil THEN "found" ELSE IF IsNotFound(e) THEN "create" ELSE "fail"

reconcileAutoscaler(w) ==
  /\ ~crashed
  /\ UNCHANGED <<storeVars, workqueue, runVars, crashed, item, alias, newu,
                 seen, externals, lastCycle, owed,
                 asEnqueued, synced, lastCall>>
  /\ \/ /\ pc[w] = "raGet"
        /\ \E fail \in FaultChoices :
             LET e == GetErr(children, "autoscaler", item[w], fail) IN
             /\ Called(w, "get", "autoscaler", e, fail)
             /\ IF reconcileAutoscalerAfterGet(e) = "create"
                THEN /\ pc' = [pc EXCEPT ![w] = "raCreate"]
                     /\ UNCHANGED <<res, u, revCache>>
                ELSE createK8SResources(w, "autoscaler", e)
        /\ UNCHANGED children
     \/ /\ pc[w] = "raCreate"
        /\ \E fail \in FaultChoices :
             LET e == CreateErr(children, "autoscaler", item[w], fail) IN
             /\ Called(w, "create", "autoscaler", e, fail)
             /\ children' = AfterCreate(children, "autoscaler", item[w],
                                     OwnerReferences("autoscaler", item[w]), e)
             /\ createK8SResources(w, "autoscaler", e)

\* (variant: any error of Get is taken for not-found)
reconcileNginxConfigCreatesOnError(e) ==
  IF e = Nil THEN "found" ELSE "create"

reconcileNginxConfigAfterGet(e) ==
  IF e = Nil THEN "found" ELSE IF IsNotFound(e) THEN "create" ELSE "fail"

reconcileNginxConfig(w) ==
  /\ ~crashed
  /\ UNCHANGED <<storeVars, workqueue, runVars, crashed, item, alias, newu,
                 seen, externals, lastCycle, owed,
                 asEnqueued, synced, lastCall>>
  /\ \/ /\ pc[w] = "rcGet"
        /\ \E fail \in FaultChoices :
             LET e == GetErr(children, "configmap", item[w], fail) IN
             /\ Called(w, "get", "configmap", e, fail)
             /\ IF reconcileNginxConfigAfterGet(e) = "create"
                THEN /\ pc' = [pc EXCEPT ![w] = "rcCreate"]
                     /\ UNCHANGED <<res, u, revCache>>
                ELSE createK8SResources(w, "configmap", e)
        /\ UNCHANGED children
     \/ /\ pc[w] = "rcCreate"
        /\ \E fail \in FaultChoices :
             LET e == CreateErr(children, "configmap", item[w], fail) IN
             /\ Called(w, "create", "configmap", e, fail)
             /\ children' = AfterCreate(children, "configmap", item[w],
                                     OwnerReferences("configmap", item[w]), e)
             /\ createK8SResources(w, "configmap", e)

\* (variant: the service is created again when it was found)
reconcileServiceAlwaysCreates(e) ==
  IF e = Nil \/ IsNotFound(e) THEN "create" ELSE "fail"

reconcileServiceAfterGet(e) ==
  IF e = Nil THEN "found" ELSE IF IsNotFound(e) THEN "create" ELSE "fail"

reconcileService(w) ==
  /\ ~crashed
  /\ UNCHANGED <<storeVars, workqueue, runVars, crashed, item, alias, newu,
                 seen, externals, lastCycle, owed,
                 asEnqueued, synced, lastCall>>
  /\ \/ /\ pc[w] = "rsGet"
        /\ \E fail \in FaultChoices :
             LET e == GetErr(children, "service", item[w], fail) IN
             /\ Called(w, "get", "service", e, fail)
             /\ IF reconcileServiceAfterGet(e) = "create"
                THEN /\ pc' = [pc EXCEPT ![w] = "rsCreate"]
                     /\ UNCHANGED <<res, u, revCache>>
                ELSE createK8SResources(w, "service", e)
        /\ UNCHANGED children
     \/ /\ pc[w] = "rsCreate"
        /\ \E fail \in FaultChoices :
             LET e == CreateErr(children, "service", item[w], fail) IN
             /\ Called(w, "create", "service", e, fail)
             /\ children' = AfterCreate(children, "service", item[w],
                                     OwnerReferences("service", item[w]), e)
             /\ createK8SResources(w, "service", e)

\* ---------------------------------------------------- deleteK8SResources
\* (variant: the service is left alone)
deleteNextPcSkipsService(kind, e) ==
  CASE kind = "deployment" -> "daGet"
    [] kind = "autoscaler" -> "dcGet"
    [] kind = "configmap" -> "usGet"
    [] kind = "service" -> "usGet"

\* (variant: an error ends the fan-out)
deleteNextPcAbortsOnError(kind, e) ==
  IF e # Nil THEN "done"
  ELSE CASE kind = "deployment" -> "daGet"
         [] kind = "autoscaler" -> "dcGet"
         [] kind = "configmap" -> "dsDelete"
         [] kind = "service" -> "usGet"

\* Where deleteK8SResources goes once delete-kind has returned e: the error is
\* logged and the next delete follows.
deleteNextPc(kind, e) ==
  CASE kind = "deployment" -> "daGet"
    [] kind = "autoscaler" -> "dcGet"
    [] kind = "configmap" -> "dsDelete"
    [] kind = "service" -> "usGet"

deleteStatus(rev) == [rev EXCEPT !.conds = Ready("Inactive")]

deleteK8SResources(w, kind, e) ==
  /\ pc' = [pc EXCEPT ![w] = deleteNextPc(kind, e)]
  /\ res' = [res EXCEPT ![w] =
               [@ EXCEPT ![kind] = e,
                         !.ret = IF deleteNextPc(kind, e) = "done" THEN e ELSE @]]
  /\ IF deleteNextPc(kind, e) = "usGet"
     THEN WriteWorking(w, deleteStatus(u[w]))
     ELSE UNCHANGED <<u, revCache>>

\* (variant: Delete is called whatever Get returned)
deleteDeploymentAlwaysDeletes(e) == "delete"

deleteDeploymentAfterGet(e) == IF e # Nil /\ IsNotFound(e) THEN "return" ELSE "delete"

\* (variant: every error of Delete is returned)
deleteDeploymentRetAnyError(e) == e

deleteDeploymentRet(e) == IF e # Nil /\ ~IsNotFound(e) THEN e ELSE Nil

deleteDeployment(w) ==
  /\ ~crashed
  /\ UNCHANGED <<storeVars, workqueue, runVars, crashed, item, alias, newu,
                 seen, externals, lastCycle, owed,
                 asEnqueued, synced, lastCall>>
  /\ \/ /\ pc[w] = "ddGet"
        /\ \E fail \in FaultChoices :
             LET e == GetErr(children, "deployment", item[w], fail) IN
             /\ Called(w, "get", "deployment", e, fail)
             /\ IF deleteDeploymentAfterGet(e) = "delete"
                THEN /\ pc' = [pc EXCEPT ![w] = "ddDelete"]
                     /\ UNCHANGED <<res, u, revCache>>
                ELSE deleteK8SResources(w, "deployment", Nil)
        /\ UNCHANGED children
     \/ /\ pc[w] = "ddDelete"
        /\ \E fail \in FaultChoices :
             LET e == DeleteErr(children, "deployment", item[w], fail) IN
             /\ Called(w, "delete", "deployment", e, fail)
             /\ children' = AfterDelete(children, "deployment", item[w], e)
             /\ deleteK8SResources(w, "deployment", deleteDeploymentRet(e))

deleteAutoscalerAfterGet(e) == IF e # Nil /\ IsNotFound(e) THEN "return" ELSE "delete"

deleteAutoscalerRet(e) == IF e # Nil /\ ~IsNotFound(e) THEN e ELSE Nil

deleteAutoscaler(w) ==
  /\ ~crashed
  /\ UNCHANGED <<storeVars, workqueue, runVars, crashed, item, alias, newu,
                 seen, externals, lastCycle, owed,
                 asEnqueued, synced, lastCall>>
  /\ \/ /\ pc[w] = "daGet"
        /\ \E fail \in FaultChoices :
             LET e == GetErr(children, "autoscaler", item[w], fail) IN
             /\ Called(w, "get", "autoscaler", e, fail)
             /\ IF deleteAutoscalerAfterGet(e) = "delete"
                THEN /\ pc' = [pc EXCEPT ![w] = "daDelete"]
                     /\ UNCHANGED <<res, u, revCache>>
                ELSE deleteK8SResources(w, "autoscaler", Nil)
        /\ UNCHANGED children
     \/ /\ pc[w] = "daDelete"
        /\ \E fail \in FaultChoices :
             LET e == DeleteErr(children, "autoscaler", item[w], fail) IN
             /\ Called(w, "delete", "autoscaler", e, fail)
             /\ children' = AfterDelete(children, "autoscaler", item[w], e)
             /\ deleteK8SResources(w, "autoscaler", deleteAutoscalerRet(e))

deleteNginxConfigAfterGet(e) == IF e # Nil /\ IsNotFound(e) THEN "return" ELSE "delete"

deleteNginxConfigRet(e) == IF e # Nil /\ ~IsNotFound(e) THEN e ELSE Nil

deleteNginxConfig(w) ==
  /\ ~crashed
  /\ UNCHANGED <<storeVars, workqueue, runVars, crashed, item, alias, newu,
                 seen, externals, lastCycle, owed,
                 asEnqueued, synced, lastCall>>
  /\ \/ /\ pc[w] = "dcGet"
        /\ \E fail \in FaultChoices :
             LET e == GetErr(children, "configmap", item[w], fail) IN
             /\ Called(w, "get", "configmap", e, fail)
             /\ IF deleteNginxConfigAfterGet(e) = "delete"
                THEN /\ pc' = [pc EXCEPT ![w] = "dcDelete"]
                     /\ UNCHANGED <<res, u, revCache>>
                ELSE deleteK8SResources(w, "configmap", Nil)
        /\ UNCHANGED children
     \/ /\ pc[w] = "dcDelete"
        /\ \E fail \in FaultChoices :
             LET e == DeleteErr(children, "configmap", item[w], fail) IN
             /\ Called(w, "delete", "configmap", e, fail)
             /\ children' = AfterDelete(children, "configmap", item[w], e)
             /\ deleteK8SResources(w, "configmap", deleteNginxConfigRet(e))

\* (variant: the error of Delete is logged and nil returned)
deleteServiceRetSwallows(e) == Nil

deleteServiceRet(e) == IF e # Nil /\ ~IsNotFound(e) THEN e ELSE Nil

\* deleteService makes no Get: it calls Delete at once.
deleteService(w) ==
  /\ ~crashed
  /\ UNCHANGED <<storeVars, workqueue, runVars, crashed, item, alias, newu,
                 seen, externals, lastCycle, owed,
                 asEnqueued, synced, lastCall>>
  /\ pc[w] = "dsDelete"
  /\ \E fail \in FaultChoices :
       LET e == DeleteErr(children, "service", item[w], fail) IN
       /\ Called(w, "delete", "service", e, fail)
       /\ children' = AfterDelete(children, "service", item[w], e)
       /\ deleteK8SResources(w, "service", deleteServiceRet(e))

\* ------------------------------------------------------------------ Next
Worker(w) ==
  \/ processNextWorkItem(w)
  \/ syncHandler(w)
  \/ reconcileDeployment(w)
  \/ reconcileAutoscaler(w)
  \/ reconcileNginxConfig(w)
  \/ reconcileService(w)
  \/ deleteDeployment(w)
  \/ deleteAutoscaler(w)
  \/ deleteNginxConfig(w)
  \/ deleteService(w)
  \/ updateStatus(w)

Next ==
  \/ \E r \in Revisions : ClientCreate(r)
  \/ \E r \in Revisions : ClientUpdateSpec(r)
  \/ \E r \in Revisions : ClientDelete(r)
  \/ \E r \in Revisions : StoreRemove(r)
  \/ \E r \in Revisions : InformerDeliver(r)
  \/ InformerSync
  \/ \E k \in Revisions : waitingLoop(k)
  \/ CloseStopCh
  \/ Run
  \/ \E w \in Workers : Worker(w)

Spec == Init /\ [][Next]_vars

\* enqueueRevision called with an object that has no metadata, which no
\* notification of the Revision informer carries: once in a behaviour.
HandlerCalled(obj) ==
  /\ ~crashed
  /\ lastCall = NoCall
  /\ workqueue' = enqueueRevision(workqueue, obj)
  /\ lastCall' = [fn |-> "enqueueRevision", arg |-> <<obj>>, ret |-> <<>>]
  /\ UNCHANGED <<revStore, revCache, pendingEv, stale, children, runVars,
                 crashed, pc, item, u, alias, newu, res, ops, seen, faults,
                 externals, lastCycle, owed, asEnqueued, synced>>

EnqueueNext == Next \/ HandlerCalled(Unkeyed)

EnqueueSpec == Init /\ [][EnqueueNext]_vars

ItemSpec == ItemInit /\ [][Next]_vars

\* The informer's goroutine, the delaying queue's timer, Run and each worker
\* are goroutines the scheduler keeps running: none of them waits for ever
\* while it has a step to take.
FairSpec ==
  /\ Spec
  /\ \A r \in Revisions : WF_vars(InformerDeliver(r))
  /\ WF_vars(InformerSync)
  /\ \A k \in Revisions : WF_vars(waitingLoop(k))
  /\ WF_vars(Run)
  /\ \A w \in Workers : WF_vars(Worker(w))

\* The goroutines started with no child in the store and, on the queue, an
\* item that is no string.
InvalidItemInit ==
  /\ InitExceptQueue
  /\ children = {}
  /\ workqueue = Add(EmptyQueue, NotAString)

FairInvalidItemSpec ==
  /\ InvalidItemInit /\ [][Next]_vars
  /\ \A r \in Revisions : WF_vars(InformerDeliver(r))
  /\ WF_vars(InformerSync)
  /\ \A k \in Revisions : WF_vars(waitingLoop(k))
  /\ WF_vars(Run)
  /\ \A w \in Workers : WF_vars(Worker(w))

\* ------------------------------------------------- v1alpha1 validation
\* apis.FieldError, and nil as the error with no message.
FieldError(message, paths, details) ==
  [message |-> message, paths |-> paths, details |-> details]
NoFieldError == FieldError("", <<>>, "")
ErrInvalidValue(value, path) == FieldError("invalid value", <<path>>, value)
ErrMultipleOneOf(p1, p2) ==
  FieldError("expected exactly one, got both", <<p1, p2>>, "")

RevisionRequestConcurrencyModelSingle == "Single"
RevisionRequestConcurrencyModelMulti == "Multi"
RevisionContainerConcurrencyMax == 1000

\* (variant: the largest value is refused)
ValidateContainerConcurrencyOffByOne(cc, cm) ==
  IF cc < 0 \/ cc >= RevisionContainerConcurrencyMax
  THEN ErrInvalidValue(ToString(cc), "containerConcurrency")
  ELSE IF \/ cc = 0 /\ cm \notin {RevisionRequestConcurrencyModelMulti, ""}
          \/ cc = 1 /\ cm \notin {RevisionRequestConcurrencyModelSingle, ""}
          \/ cc > 1 /\ cm # ""
  THEN ErrMultipleOneOf("containerConcurrency", "concurrencyModel")
  ELSE NoFieldError

\* ValidateContainerConcurrency: the value alone first, then the value with
\* the concurrency model. (The tests do not say what a value above 1 with a
\* model gives; it is refused here as the other mismatches are.)
ValidateContainerConcurrency(cc, cm) ==
  IF cc < 0 \/ cc > RevisionContainerConcurrencyMax
  THEN ErrInvalidValue(ToString(cc), "containerConcurrency")
  ELSE IF \/ cc = 0 /\ cm \notin {RevisionRequestConcurrencyModelMulti, ""}
          \/ cc = 1 /\ cm \notin {RevisionRequestConcurrencyModelSingle, ""}
          \/ cc > 1 /\ cm # ""
  THEN ErrMultipleOneOf("containerConcurrency", "concurrencyModel")
  ELSE NoFieldError

\* A RevisionSpec by the fields the tests set, and the arguments
\* CheckImmutableFields may get.
RevisionSpecs ==
  [image : {"helloworld", "busybox"}, cpu : {"50m", "100m"},
   model : {RevisionRequestConcurrencyModelSingle,
            RevisionRequestConcurrencyModelMulti}]
RevisionOf(spec) == [type |-> "Revision", spec |-> spec]
notARevision == [type |-> "notARevision", spec |-> <<>>]

\* cmp.Diff(original.Spec, current.Spec): the fields that differ.
Diff(old, new) == {f \in DOMAIN old : old[f] # new[f]}

\* (variant: only the container is compared)
CheckImmutableFieldsContainerOnly(current, og) ==
  IF og.type # "Revision"
  THEN FieldError("The provided original was not a Revision", <<>>, {})
  ELSE IF Diff(og.spec, current.spec) \ {"model"} # {}
  THEN FieldError("Immutable fields changed (-old +new)", <<"spec">>,
                  Diff(og.spec, current.spec))
  ELSE NoFieldError

\* Revision.CheckImmutableFields.
CheckImmutableFields(current, og) ==
  IF og.type # "Revision"
  THEN FieldError("The provided original was not a Revision", <<>>, {})
  ELSE IF Diff(og.spec, current.spec) # {}
  THEN FieldError("Immutable fields changed (-old +new)", <<"spec">>,
                  Diff(og.spec, current.spec))
  ELSE NoFieldError

\* The validation functions are called with arguments of the caller's choice,
\* once in a behaviour; they touch nothing of the controller.
controllerVars == <<revStore, revCache, pendingEv, children, workqueue, run,
                    runErr, stopCh, crashed, pc, item, u, alias, newu, stale,
                    res, ops, seen, faults, externals, lastCycle, owed,
                    asEnqueued, synced>>

ContainerConcurrencies == (0 - 2)..(RevisionContainerConcurrencyMax + 2)
ConcurrencyModels == {"", RevisionRequestConcurrencyModelSingle,
                      RevisionRequestConcurrencyModelMulti}

CallValidateContainerConcurrency(cc, cm) ==
  /\ lastCall = NoCall
  /\ lastCall' = [fn |-> "ValidateContainerConcurrency", arg |-> <<cc, cm>>,
                  ret |-> <<ValidateContainerConcurrency(cc, cm)>>]
  /\ UNCHANGED controllerVars

CallCheckImmutableFields(current, og) ==
  /\ lastCall = NoCall
  /\ lastCall' = [fn |-> "CheckImmutableFields", arg |-> <<current, og>>,
                  ret |-> <<CheckImmutableFields(current, og)>>]
  /\ UNCHANGED controllerVars

ValidationNext ==
  \/ \E cc \in ContainerConcurrencies, cm \in ConcurrencyModels :
       CallValidateContainerConcurrency(cc, cm)
  \/ \E new \in RevisionSpecs,
        og \in {RevisionOf(s) : s \in RevisionSpecs} \cup {notARevision} :
       CallCheckImmutableFields(RevisionOf(new), og)

ValidationSpec == Init /\ [][ValidationNext]_vars

\* ================================================================ claims
\* A worker is inside a cycle from the moment it has taken a key until it has
\* made its Forget and Done calls for it.
InCycle(w) == pc[w] \in {"sync", "ns", "rdGet", "rdPod", "rdCreate", "raGet",
                         "raCreate", "rcGet", "rcCreate", "rsGet", "rsCreate",
                         "ddGet", "ddDelete", "daGet", "daDelete", "dcGet",
                         "dcDelete", "dsDelete", "usGet", "usUpdate", "done"}

Queued(k) == \E i \in 1..Len(workqueue.queue) : workqueue.queue[i] = k

\* C1: no two workers are ever inside a cycle for the same key at the same
\* time, whatever enqueues arrive while the key is being processed.
C1_AtMostOneInFlight ==
  \A w1, w2 \in Workers :
    (w1 # w2 /\ InCycle(w1) /\ InCycle(w2)) => item[w1] # item[w2]

\* C1 witness: a key was added again while a worker is inside a cycle for it,
\* and another worker is waiting for work.
C1_Witness ==
  \E w1, w2 \in Workers :
    /\ InCycle(w1) /\ pc[w2] = "get"
    /\ item[w1] \in workqueue.dirty
    /\ item[w1] \in workqueue.processing

\* C2: once a cycle for a key has returned an error the key is put back: it
\* is waiting for its back-off, queued, or in a worker's hands again, with no
\* new notification needed.
C2_RetryAfterError ==
  \A k \in Revisions :
    (lastCycle[k].failed /\ ~workqueue.shuttingDown /\ ~crashed)
      => \/ k \in workqueue.waiting
         \/ k \in workqueue.dirty
         \/ k \in workqueue.processing

\* C3 (as stated): enqueues of a key made while it is queued collapse into
\* its one pending entry, so when a worker takes the key no other entry for it
\* is left pending.
C3_CollapseWhileQueued ==
  [][\A w \in Workers :
       (pc[w] = "get" /\ pc'[w] = "sync") => item'[w] \notin workqueue'.waiting]_vars

Entries(k) == {i \in 1..Len(workqueue.queue) : workqueue.queue[i] = k}

\* C3 (amended), safety: the queue holds a key at most once, a queued key is
\* dirty and not in flight, a dirty key is queued or in flight (so that Done
\* queues it), and a key enqueued and not yet taken is in the delay stage or
\* dirty, unless the queue is shut down.
C3_Pending ==
  \A k \in Revisions :
    /\ Cardinality(Entries(k)) <= 1
    /\ Queued(k) => (k \in workqueue.dirty /\ k \notin workqueue.processing)
    /\ k \in workqueue.dirty => (Queued(k) \/ k \in workqueue.processing)
    /\ (k \in owed /\ ~workqueue.shuttingDown)
         => (k \in workqueue.waiting \/ k \in workqueue.dirty)

\* C3 (amended): the safety part always holds, and a key enqueued is taken by
\* a worker afterwards, unless the queue is shut down or the process is gone.
C3_DedupNeverLost ==
  /\ []C3_Pending
  /\ \A k \in Revisions :
       (k \in owed) ~> (k \notin owed \/ workqueue.shuttingDown \/ crashed)

\* C3 witness: after a cycle for the key, the key is queued once while a
\* further enqueue of it is still in the delay stage.
C3_Witness ==
  \E k \in Revisions :
    /\ lastCycle[k].path # "none"
    /\ Queued(k) /\ k \in workqueue.waiting /\ k \in owed

\* ------------------------------------------------ one cycle's call log
Four == {ChildKinds[i] : i \in 1..Len(ChildKinds)}
IsErr(e) == e # Nil /\ e # NotRun

\* The calls of worker w's cycle with the given verb on one of the kinds.
CallsOf(w, verb, kinds) ==
  SelectSeq(ops[w], LAMBDA o : o[1] = verb /\ o[2] \in kinds)
KindsOf(calls) == [i \in 1..Len(calls) |-> calls[i][2]]

\* A cycle on the given path that has made all its calls and has not yet
\* made its Forget and Done.
AtEnd(w, path) == pc[w] = "done" /\ res[w].path = path

AllFour(r) == \A k \in Four : Present(children, k, r)
ExactlyOneEach(r) ==
  \A k \in Four : Cardinality({c \in children : c.name = ChildName(k, r)}) = 1

\* C4: a create cycle without store failures that follows a create cycle
\* without store failures for the same Revision makes no create call for any of
\* the four children, returns nil, writes the status the first one wrote, and
\* leaves exactly one child of each kind.
C4_IdempotentCreate ==
  \A w \in Workers :
    (/\ AtEnd(w, "create") /\ ~Faulty(ops[w])
     /\ lastCycle[item[w]].path = "create"
     /\ ~lastCycle[item[w]].faulty /\ ~lastCycle[item[w]].failed)
    => /\ CallsOf(w, "create", Kinds) = <<>>
       /\ res[w].ret = Nil
       /\ res[w].wrote = lastCycle[item[w]].wrote
       /\ res[w].wrote # <<>>
       /\ ExactlyOneEach(item[w])

\* C4 witness: the second of two create cycles without store failures has
\* made all its calls.
C4_Witness ==
  \E w \in Workers :
    /\ AtEnd(w, "create") /\ ~Faulty(ops[w])
    /\ lastCycle[item[w]].path = "create"
    /\ ~lastCycle[item[w]].faulty /\ ~lastCycle[item[w]].failed
    /\ CallsOf(w, "get", Four) # <<>>

\* C5: a create cycle without store failures that started with none of the
\* four children present has created the deployment, the autoscaler, the
\* configmap and the service, in that order, and has written a status whose
\* only condition is Ready=False with reason Deploying.
C5_FreshCreate ==
  \A w \in Workers :
    (AtEnd(w, "create") /\ ~Faulty(ops[w]) /\ seen[w] \cap Four = {})
    => /\ KindsOf(CallsOf(w, "create", Four)) = ChildKinds
       /\ \A i \in 1..Len(ops[w]) :
            (ops[w][i][1] = "create" /\ ops[w][i][2] \in Four)
              => ops[w][i][3] = "ok"
       /\ AllFour(item[w])
       /\ Len(res[w].wrote) = 1
       /\ res[w].wrote[1].conds = <<Condition("Ready", "False", "Deploying")>>
       /\ ops[w][Len(ops[w])] = <<"update", "revision", "ok">>
       /\ \A i \in 1..Len(ops[w]) :
            ops[w][i][2] = "revision" => \A j \in 1..Len(ops[w]) :
              (ops[w][j][1] = "create" => j < i)

\* C5 witness: such a cycle has made all its calls.
C5_Witness ==
  \E w \in Workers :
    /\ AtEnd(w, "create") /\ ~Faulty(ops[w]) /\ seen[w] \cap Four = {}
    /\ revStore[item[w]].conds = Ready("Deploying")

\* C6: a delete cycle without store failures that started with the four
\* children present leaves none of them and has written a status whose only
\* condition is Ready=False with reason Inactive.
C6_Teardown ==
  \A w \in Workers :
    (AtEnd(w, "delete") /\ ~Faulty(ops[w]) /\ Four \subseteq seen[w])
    => /\ \A k \in Four : ~Present(children, k, item[w])
       /\ Len(res[w].wrote) = 1
       /\ res[w].wrote[1].conds = <<Condition("Ready", "False", "Inactive")>>

\* C6 witness: such a cycle has made all its calls.
C6_Witness ==
  \E w \in Workers :
    /\ AtEnd(w, "delete") /\ ~Faulty(ops[w]) /\ Four \subseteq seen[w]
    /\ revStore[item[w]].conds = Ready("Inactive")

\* Call i of worker w's cycle is a Delete that does not directly follow a Get
\* of the same child that did not say not-found.
DeleteWithoutFetch(w, i) ==
  /\ ops[w][i][1] = "delete"
  /\ ~(/\ i > 1
       /\ ops[w][i - 1][1] = "get"
       /\ ops[w][i - 1][2] = ops[w][i][2]
       /\ ops[w][i - 1][3] # "NotFound")

\* C7 (as stated): for each of the four kinds, a Delete is only issued after
\* a fetch of the child that did not report it absent.
C7_FetchBeforeEveryDelete ==
  \A w \in Workers : \A i \in 1..Len(ops[w]) : ~DeleteWithoutFetch(w, i)

\* C7 (amended): delete-deployment, delete-autoscaler and delete-configmap
\* fetch first and, when the fetch says not-found, return nil without a Delete;
\* delete-service makes no fetch, calls Delete at once and returns nil when
\* that Delete says not-found; a delete cycle without store failures that
\* started with no child present makes that one Delete, returns nil and writes
\* Ready=False with reason Inactive.
C7_IdempotentDelete ==
  \A w \in Workers :
    res[w].path = "delete" =>
      /\ \A i \in 1..Len(ops[w]) :
           /\ (ops[w][i][2] \in Four \ {"service"})
                => /\ ~DeleteWithoutFetch(w, i)
                   /\ (ops[w][i] = <<"get", ops[w][i][2], "NotFound">>
                       /\ ops[w][i][2] \notin {ops[w][j][2] : j \in (i + 1)..Len(ops[w])})
                        => res[w][ops[w][i][2]] = Nil
           /\ ops[w][i][2] = "service"
                => /\ ops[w][i][1] = "delete"
                   /\ ops[w][i - 1][2] # "service"
                   /\ ops[w][i][3] = "NotFound" => res[w].service = Nil
      /\ (pc[w] = "done" /\ ~Faulty(ops[w]) /\ seen[w] \cap Four = {})
           => /\ CallsOf(w, "delete", Kinds) = << <<"delete", "service", "NotFound">> >>
              /\ res[w].ret = Nil
              /\ Len(res[w].wrote) = 1
              /\ res[w].wrote[1].conds = <<Condition("Ready", "False", "Inactive")>>

\* C7 witness: a delete cycle without store failures, started with no child
\* present, has made all its calls.
C7_Witness ==
  \E w \in Workers :
    /\ AtEnd(w, "delete") /\ ~Faulty(ops[w]) /\ seen[w] \cap Four = {}
    /\ CallsOf(w, "get", Four) # <<>>

\* C8: in a create cycle whose reconcile-deployment returned nil, the cycle
\* ends only after updateStatus has run and returns what updateStatus
\* returned, whatever reconcile-autoscaler, -configmap and -service returned;
\* a cycle that ended so with a failed secondary step and a nil status result
\* made the Forget call.
C8_SecondaryTolerated ==
  /\ \A w \in Workers :
       (AtEnd(w, "create") /\ res[w].deployment = Nil)
       => /\ res[w].status # NotRun
          /\ res[w].ret = res[w].status
          /\ \A k \in Four : res[w][k] # NotRun
          /\ CallsOf(w, "get", {"revision"}) # <<>>
          /\ (res[w].status = Nil => /\ Len(res[w].wrote) = 1
                                     /\ FinishCalls(res[w].ret)[1] = "Forget")
  /\ \A k \in Revisions :
       (lastCycle[k].path = "create" /\ lastCycle[k].secondary # {}
        /\ lastCycle[k].wrote # <<>>)
       => (~lastCycle[k].failed /\ lastCycle[k].calls = <<"Forget", "Done">>)

\* C8 witness: the autoscaler's Create failed, the status was written and the
\* cycle returns nil.
C8_Witness ==
  \E w \in Workers :
    /\ AtEnd(w, "create") /\ res[w].deployment = Nil
    /\ res[w].autoscaler = Err("ServerError", "create", "autoscaler")
    /\ res[w].ret = Nil /\ res[w].wrote # <<>>

\* C9: a create cycle whose reconcile-deployment returned an error ends there:
\* it returns that error, and has made no call on the autoscaler, the
\* configmap, the service or the Revision, so no status write.
C9_PrimaryAborts ==
  \A w \in Workers :
    (res[w].path = "create" /\ IsErr(res[w].deployment))
    => /\ pc[w] = "done"
       /\ res[w].ret = res[w].deployment
       /\ \A i \in 1..Len(ops[w]) :
            ops[w][i][2] \notin {"autoscaler", "configmap", "service", "revision"}
       /\ \A k \in {"autoscaler", "configmap", "service", "status"} :
            res[w][k] = NotRun
       /\ res[w].wrote = <<>>
       /\ FinishCalls(res[w].ret) = <<"Done">>

\* C9 witness: the deployment's Create failed and the cycle has ended.
C9_Witness ==
  \E w \in Workers :
    /\ AtEnd(w, "create")
    /\ res[w].deployment = Err("ServerError", "create", "deployment")

Rank(kind) ==
  CASE kind \in {"namespace"} -> 0
    [] kind \in {"deployment", "pod"} -> 1
    [] kind = "autoscaler" -> 2
    [] kind = "configmap" -> 3
    [] kind = "service" -> 4
    [] kind = "revision" -> 5

\* C10: a delete cycle that has ended has attempted delete-deployment,
\* delete-autoscaler, delete-configmap and delete-service, in that order and
\* whatever the earlier ones returned, has then set Ready=False with reason
\* Inactive and run updateStatus, and returns what updateStatus returned.
C10_DeleteFanOut ==
  \A w \in Workers :
    AtEnd(w, "delete")
    => /\ \A k \in Four : res[w][k] # NotRun
       /\ \A k \in Four : \E i \in 1..Len(ops[w]) : ops[w][i][2] = k
       /\ \A i, j \in 1..Len(ops[w]) :
            i < j => Rank(ops[w][i][2]) <= Rank(ops[w][j][2])
       /\ u[w].conds = <<Condition("Ready", "False", "Inactive")>>
       /\ res[w].status # NotRun
       /\ CallsOf(w, "get", {"revision"}) # <<>>
       /\ res[w].ret = res[w].status
       /\ (res[w].status = Nil => res[w].wrote = <<Status(u[w])>>)

\* C10 witness: the deployment's Delete failed, the service's Delete was made
\* all the same, and the cycle returns nil.
C10_Witness ==
  \E w \in Workers :
    /\ AtEnd(w, "delete")
    /\ res[w].deployment = Err("ServerError", "delete", "deployment")
    /\ \E i \in 1..Len(ops[w]) : ops[w][i] = <<"delete", "service", "ok">>
    /\ res[w].ret = Nil

\* C11: a status write that succeeds leaves the stored Revision's spec and
\* deletion marker as the store held them just before, whoever changed them
\* since the worker got its working copy, and puts the working copy's status
\* in the stored object.
C11_StatusMergeSafe ==
  [][\A w \in Workers :
       (pc[w] = "usUpdate" /\ pc'[w] = "done" /\ res'[w].status = Nil)
       => /\ revStore'[item[w]].exists
          /\ revStore'[item[w]].spec = revStore[item[w]].spec
          /\ revStore'[item[w]].marker = revStore[item[w]].marker
          /\ Status(revStore'[item[w]]) = Status(u[w])]_vars

\* C11 witness: the status was written after another writer had changed the
\* spec the working copy has, and the stored spec is the other writer's.
C11_Witness ==
  \E w \in Workers :
    /\ pc[w] = "done" /\ res[w].status = Nil
    /\ newu[w].spec # u[w].spec
    /\ revStore[item[w]].exists
    /\ revStore[item[w]].spec = newu[w].spec
    /\ Status(revStore[item[w]]) = Status(u[w])

\* C12: in a create cycle, once the Get of a child has found it, reconcile-X
\* has returned nil and the cycle makes no other call on that child (and, for
\* the deployment, none on the pod): what the store holds under the child's
\* name, whoever made it, stays as it is.
C12_CreationOnly ==
  \A w \in Workers :
    res[w].path = "create" =>
      \A i \in 1..Len(ops[w]) :
        (ops[w][i][2] \in Four /\ ops[w][i] = <<"get", ops[w][i][2], "ok">>)
        => /\ \A j \in 1..Len(ops[w]) : j # i => ops[w][j][2] # ops[w][i][2]
           /\ ops[w][i][2] = "deployment"
                => \A j \in 1..Len(ops[w]) : ops[w][j][2] # "pod"
           /\ res[w][ops[w][i][2]] = Nil
           /\ Present(children, ops[w][i][2], item[w])
           /\ (ops[w][i][2] \in seen[w] /\ Child(ops[w][i][2], item[w], item[w]) \notin children)
                => Child(ops[w][i][2], item[w], "other") \in children

\* C12 witness: a create cycle has ended that found a deployment another
\* client had made and a service an earlier cycle had made.
C12_Witness ==
  \E w \in Workers :
    /\ AtEnd(w, "create")
    /\ Child("deployment", item[w], "other") \in children
    /\ \E i \in 1..Len(ops[w]) : ops[w][i] = <<"get", "deployment", "ok">>
    /\ \E i \in 1..Len(ops[w]) : ops[w][i] = <<"get", "service", "ok">>

\* The error a Create with the given outcome returned.
Outcome(code, verb, kind) == IF code = "ok" THEN Nil ELSE Err(code, verb, kind)

\* C13 (as stated): the only Create a reconcile-X makes is the one of its
\* child, right after the Get of that child said not-found.
C13_OneCreatePerChild ==
  \A w \in Workers : \A i \in 1..Len(ops[w]) :
    ops[w][i][1] = "create"
    => (i > 1 /\ ops[w][i - 1] = <<"get", ops[w][i][2], "NotFound">>)

\* C13 (amended): a Get that fails otherwise than with not-found ends
\* reconcile-X with that error and no Create. After not-found,
\* reconcile-autoscaler, -configmap and -service make one Create and return
\* its outcome; reconcile-deployment first makes a Create of a pod, whose
\* outcome is only logged, and then the one Create of the deployment, whose
\* outcome it returns.
C13_FetchThenCreate ==
  \A w \in Workers :
    res[w].path = "create" =>
      \A i \in 1..Len(ops[w]) :
        LET k == ops[w][i][2]
            n == Len(ops[w])
        IN /\ (k \in Four /\ ops[w][i] = <<"get", k, "ServerError">>)
                => /\ res[w][k] = Err("ServerError", "get", k)
                   /\ \A j \in 1..n : ops[w][j][1] = "create" => ops[w][j][2] # k
                   /\ k = "deployment" => \A j \in 1..n : ops[w][j][2] # "pod"
           /\ (k \in Four \ {"deployment"} /\ ops[w][i] = <<"get", k, "NotFound">>)
                => /\ i < n => (ops[w][i + 1][1] = "create" /\ ops[w][i + 1][2] = k)
                   /\ Len(CallsOf(w, "create", {k})) <= 1
                   /\ i < n => res[w][k] = Outcome(ops[w][i + 1][3], "create", k)
           /\ ops[w][i] = <<"get", "deployment", "NotFound">>
                => /\ i < n => (ops[w][i + 1][1] = "create" /\ ops[w][i + 1][2] = "pod")
                   /\ i + 1 < n => (/\ ops[w][i + 2][1] = "create"
                                    /\ ops[w][i + 2][2] = "deployment"
                                    /\ res[w].deployment =
                                         Outcome(ops[w][i + 2][3], "create", "deployment"))
                   /\ Len(CallsOf(w, "create", {"pod"})) <= 1
                   /\ Len(CallsOf(w, "create", {"deployment"})) <= 1
           /\ (ops[w][i][1] = "create" /\ k \in Four)
                => \E j \in 1..(i - 1) : ops[w][j] = <<"get", k, "NotFound">>

\* C13 witness: the deployment was not found, the pod's Create failed, the
\* deployment's Create worked and reconcile-deployment returned nil.
C13_Witness ==
  \E w \in Workers :
    /\ AtEnd(w, "create")
    /\ \E i \in 1..Len(ops[w]) : ops[w][i] = <<"create", "pod", "ServerError">>
    /\ \E i \in 1..Len(ops[w]) : ops[w][i] = <<"create", "deployment", "ok">>
    /\ res[w].deployment = Nil

\* C14: for each of the four children, delete-X returns nil when its Delete
\* worked or said not-found, and the Delete's error for every other failure.
C14_DeleteNotFoundIsSuccess ==
  \A w \in Workers :
    res[w].path = "delete" =>
      \A i \in 1..Len(ops[w]) :
        (ops[w][i][1] = "delete" /\ ops[w][i][2] \in Four)
        => res[w][ops[w][i][2]] =
             IF ops[w][i][3] \in {"ok", "NotFound"} THEN Nil
             ELSE Err(ops[w][i][3], "delete", ops[w][i][2])

\* C14 witness: the Delete of the deployment and the Delete of the service
\* both said not-found, and both delete-X returned nil.
C14_Witness ==
  \E w \in Workers :
    /\ AtEnd(w, "delete")
    /\ \E i \in 1..Len(ops[w]) : ops[w][i] = <<"delete", "deployment", "NotFound">>
    /\ \E i \in 1..Len(ops[w]) : ops[w][i] = <<"delete", "service", "NotFound">>
    /\ res[w].deployment = Nil /\ res[w].service = Nil

\* C15: a cycle for a key that does not split, or whose Revision the lister
\* does not find, has made no call on the resource API, returns nil and ends
\* with Forget and Done; a cycle in which the lister failed otherwise has made
\* no call either, returns the lister's error and ends with Done alone.
C15_DropOrFail ==
  /\ \A w \in Workers :
       /\ res[w].path \in {"malformed", "gone"}
            => /\ pc[w] = "done" /\ ops[w] = <<>>
               /\ res[w].ret = Nil
               /\ FinishCalls(res[w].ret) = <<"Forget", "Done">>
       /\ res[w].path = "listerr"
            => /\ pc[w] = "done"
               /\ ops[w] = << <<"get", "cache", "ServerError">> >>
               /\ res[w].ret = Err("ServerError", "get", "cache")
               /\ FinishCalls(res[w].ret) = <<"Done">>
  /\ \A k \in Items :
       /\ lastCycle[k].path \in {"malformed", "gone"}
            => (~lastCycle[k].failed /\ lastCycle[k].calls = <<"Forget", "Done">>)
       /\ lastCycle[k].path = "listerr"
            => (lastCycle[k].failed /\ lastCycle[k].calls = <<"Done">>)

\* C15 witness: a key that does not split has been dropped, and a cycle for a
\* Revision that is gone from the cache is about to end.
C15_Witness ==
  /\ lastCycle[MalformedKey].path = "malformed"
  /\ \E w \in Workers : AtEnd(w, "gone") /\ item[w] \in Revisions

\* C16: when ensuring the namespace fails the process goes down at that call:
\* the cycle has made no call on a child or on the Revision, has returned
\* nothing, and no cycle ever ends with the namespace's error as its result.
C16_NamespaceFailureFatal ==
  /\ \A w \in Workers :
       (ops[w] # <<>> /\ ops[w][Len(ops[w])] = <<"ensure", "namespace", "ServerError">>)
       => /\ crashed /\ pc[w] = "panic"
          /\ Len(ops[w]) = 1
          /\ res[w].ret = NotRun /\ res[w].status = NotRun /\ res[w].wrote = <<>>
          /\ \A k \in Four : res[w][k] = NotRun
          /\ lastCycle[item[w]].path = "panic"
  /\ crashed => \E w \in Workers : pc[w] = "panic"
  /\ \A w \in Workers : res[w].path # "nserr"
  /\ \A k \in Items : lastCycle[k].path # "nserr"

\* C16 witness: the process has gone down on a namespace failure while the
\* Revision's children were still to be made.
C16_Witness ==
  \E w \in Workers :
    /\ crashed /\ pc[w] = "panic"
    /\ revCache[item[w]].exists
    /\ ~AllFour(item[w])

\* C17: a cycle takes the create path exactly when the object the lister
\* returned in this cycle has no deletion marker, and the delete path exactly
\* when it has one; a create cycle makes no Delete and a delete cycle no
\* Create.
C17_BranchOnMarkerRead ==
  \A w \in Workers :
    /\ res[w].path = "create" =>
         /\ u[w].exists /\ ~u[w].marker
         /\ CallsOf(w, "delete", Kinds) = <<>>
    /\ res[w].path = "delete" =>
         /\ u[w].exists /\ u[w].marker
         /\ CallsOf(w, "create", Kinds) = <<>>
    /\ pc[w] \in {"rdGet", "rdPod", "rdCreate", "raGet", "raCreate", "rcGet",
                  "rcCreate", "rsGet", "rsCreate"} => res[w].path = "create"
    /\ pc[w] \in {"ddGet", "ddDelete", "daGet", "daDelete", "dcGet", "dcDelete",
                  "dsDelete"} => res[w].path = "delete"

\* C17 witness: the key was enqueued for a Revision without the marker, the
\* marker was set before a worker took the key, and the cycle has run the
\* delete path.
C17_Witness ==
  \E w \in Workers :
    /\ AtEnd(w, "delete")
    /\ item[w] \notin owed /\ asEnqueued[item[w]] = "create"
    /\ CallsOf(w, "delete", Four) # <<>>

\* A list of conditions with at most one of type Ready, that one True or False
\* and with a reason.
OneReady(conds) ==
  /\ Cardinality({i \in 1..Len(conds) : conds[i].type = "Ready"}) <= 1
  /\ \A i \in 1..Len(conds) :
       conds[i].type = "Ready"
       => (conds[i].status \in {"True", "False"} /\ conds[i].reason # "")

\* C18: every status the reconciler writes or is about to write, and so every
\* stored and cached Revision, has at most one Ready condition, True or False
\* and with a reason.
C18_AtMostOneReady ==
  /\ \A r \in Revisions : OneReady(revStore[r].conds) /\ OneReady(revCache[r].conds)
  /\ \A w \in Workers :
       /\ OneReady(u[w].conds) /\ OneReady(newu[w].conds)
       /\ \A i \in 1..Len(res[w].wrote) : OneReady(res[w].wrote[i].conds)
       /\ \A i \in 1..Len(res[w].wrote) : Len(res[w].wrote[i].conds) = 1

\* C18 witness: a delete cycle has written its status over the one a create
\* cycle had written, and the stored status has the one condition.
C18_Witness ==
  \E k \in Revisions :
    /\ lastCycle[k].path = "delete" /\ lastCycle[k].wrote # <<>>
    /\ ChildName("service", k) = revStore[k].svc
    /\ revStore[k].conds = <<Condition("Ready", "False", "Inactive")>>

\* The number of times a call is in a list of queue calls.
Count(calls, name) == Cardinality({i \in 1..Len(calls) : calls[i] = name})

\* C19: the items the queue holds as being processed are exactly the items
\* workers are inside a cycle for (Done is not called before the cycle has
\* ended and has been called once it has, also when the cycle ended in a
\* panic), and every cycle that has ended, for whatever item and on whatever
\* path, made exactly one Done call, as its last queue call.
C19_DoneExactlyOnce ==
  /\ workqueue.processing = {item[w] : w \in {v \in Workers : InCycle(v)}}
  /\ \A w \in Workers :
       pc[w] = "done" =>
         /\ Count(FinishCalls(res[w].ret), "Done") = 1
         /\ FinishCalls(res[w].ret)[Len(FinishCalls(res[w].ret))] = "Done"
  /\ \A k \in Items :
       lastCycle[k].path # "none" =>
         /\ Count(lastCycle[k].calls, "Done") = 1
         /\ lastCycle[k].calls[Len(lastCycle[k].calls)] = "Done"
         /\ (k \notin workqueue.processing \/ \E w \in Workers : InCycle(w) /\ item[w] = k)

\* C19 witness: an item that is no string has been through a cycle, a cycle for
\* a Revision's key has ended in a panic, and the queue holds no item as being
\* processed.
C19_Witness ==
  /\ lastCycle[NotAString].path = "invalid"
  /\ \E k \in Revisions : lastCycle[k].path = "panic"
  /\ workqueue.processing = {}

\* What the end of worker w's cycle does to the rate limiter's counters.
ForgetStep(w) ==
  (pc[w] = "done" /\ pc'[w] = "get")
  => IF res[w].path = "invalid" \/ res[w].ret = Nil
     THEN workqueue'.failures = [workqueue.failures EXCEPT ![item[w]] = 0]
     ELSE workqueue'.failures = workqueue.failures

\* C20: a cycle ends with one Forget when the item was no string or
\* syncHandler returned nil, which clears the item's counter, and with no
\* Forget when syncHandler returned an error (or panicked), which leaves the
\* counters as they were.
C20_ForgetOnlyOnNil ==
  /\ [](\A k \in Items :
         /\ lastCycle[k].path \notin {"none", "panic"}
              => /\ Count(lastCycle[k].calls, "Forget") = IF lastCycle[k].failed THEN 0 ELSE 1
         /\ lastCycle[k].path = "invalid" => ~lastCycle[k].failed
         /\ lastCycle[k].path = "panic" => Count(lastCycle[k].calls, "Forget") = 0)
  /\ [][\A w \in Workers : ForgetStep(w)]_vars

\* C20 witness: an item that is no string has been forgotten, and a cycle for a
\* Revision's key has returned an error and the key's counter is kept.
C20_Witness ==
  /\ lastCycle[NotAString].path = "invalid"
  /\ lastCycle[NotAString].calls = <<"Forget", "Done">>
  /\ \E k \in Revisions :
       /\ lastCycle[k].failed /\ lastCycle[k].calls = <<"Done">>
       /\ workqueue.failures[k] > 0
       /\ k \notin workqueue.waiting /\ k \notin workqueue.dirty

\* C21 (as stated): Run returns only after the stop signal, with the queue
\* shut down, and once it has returned no worker is inside a cycle.
C21_RunWaitsForWorkers ==
  run = "returned" =>
    /\ stopCh /\ workqueue.shuttingDown
    /\ \A w \in Workers : ~InCycle(w)

\* The children of r are as r's cached state calls for: all four there when it
\* has no deletion marker, none of the four when it has one.
Converged(r) ==
  revCache[r].exists =>
    \A k \in Four : Present(children, k, r) <=> ~revCache[r].marker

\* C22: while the controller is not stopped and no call on the store fails,
\* the children of every Revision the cache knows end up, and stay, as its
\* deletion marker calls for.
C22_Convergence ==
  <>[](stopCh \/ faults > 0 \/ \A r \in Revisions : Converged(r))

\* C22 witness: a create cycle made the children (its pod is still there), the
\* deletion marker was set afterwards by the Revision's owner, and a delete
\* cycle has left none of the four.
C22_Witness ==
  \E r \in Revisions :
    /\ ~stopCh /\ faults = 0 /\ externals > 0
    /\ Present(children, "pod", r)
    /\ revCache[r].exists /\ revCache[r].marker
    /\ lastCycle[r].path = "delete"
    /\ \A k \in Four : ~Present(children, k, r)
    /\ \A w \in Workers : ~InCycle(w)

\* The step delivers a notification of r.
Delivered(r) == pendingEv[r] /\ ~pendingEv'[r]

\* C23: a notification of a stored (added or updated) Revision enqueues its
\* key with AddRateLimited; a notification of a removed one leaves the queue as
\* it is; a handler call with an object that has no key leaves the queue as it
\* is; and no other step puts a key into the queue's delay stage.
C23_EnqueueOnAddAndUpdateOnly ==
  [][/\ \A r \in Revisions : Delivered(r) =>
          workqueue' = IF revStore[r].exists THEN AddRateLimited(workqueue, r)
                       ELSE workqueue
     /\ lastCall' # lastCall => workqueue' = workqueue
     /\ \A k \in Items \cup {"", Unkeyed} :
          (k \in workqueue'.waiting /\ k \notin workqueue.waiting)
            => k \in Revisions /\ Delivered(k) /\ revStore[k].exists]_vars

\* C23 witness: the key was enqueued and a cycle ran for it, the Revision's
\* removal has since been delivered with nothing enqueued, and the handler
\* has been called with an object that has no key.
C23_Witness ==
  \E r \in Revisions :
    /\ lastCycle[r].path # "none"
    /\ ~revStore[r].exists /\ ~revCache[r].exists /\ ~pendingEv[r]
    /\ lastCall.fn = "enqueueRevision" /\ lastCall.arg = <<Unkeyed>>
    /\ workqueue.waiting = {} /\ workqueue.queue = <<>>
    /\ ~workqueue.shuttingDown

\* C24: when reconcileService has returned, the working copy's ServiceName is
\* the service's derived name if it returned no error and is what it was
\* before if it returned one, and the conditions are the one Deploying
\* condition in both cases.
C24_ServiceNameOnSuccess ==
  [][\A w \in Workers :
       (pc[w] \in {"rsGet", "rsCreate"} /\ pc'[w] = "usGet") =>
         /\ u'[w].conds = <<Condition("Ready", "False", "Deploying")>>
         /\ u'[w].svc = IF res'[w].service = Nil
                        THEN ChildName("service", item[w])
                        ELSE u[w].svc]_vars

\* C24 witness: reconcileService has failed in a create cycle, the working
\* copy still has no ServiceName and carries the Deploying condition.
C24_Witness ==
  \E w \in Workers :
    /\ pc[w] = "usGet" /\ res[w].path = "create"
    /\ IsErr(res[w].service)
    /\ u[w].svc = <<>>
    /\ u[w].conds = <<Condition("Ready", "False", "Deploying")>>

\* C25: a step that is not a write by another client leaves every stored
\* Revision there or not there as it was, with its spec, deletion marker and
\* finalizers as they were: the controller writes the status block only.
C25_WritesStatusOnly ==
  [][externals' = externals =>
       \A r \in Revisions : NonStatus(revStore'[r]) = NonStatus(revStore[r])]_vars

\* C25 witness: a cycle has written its status to a Revision whose stored
\* spec is no longer the one the cycle worked from, and the stored spec,
\* marker and finalizers stand.
C25_Witness ==
  \E w \in Workers :
    /\ pc[w] = "done" /\ res[w].status = Nil /\ res[w].wrote # <<>>
    /\ revStore[item[w]].exists
    /\ revStore[item[w]].spec # u[w].spec
    /\ revStore[item[w]].fin = <<"controller">>
    /\ Status(revStore[item[w]]) = Status(u[w])

\* C26: every deployment, autoscaler, configmap or service that a step adds
\* to the store carries the owner reference to the Revision whose cycle made
\* the create call, which is the Revision the child is named after.
C26_CreatedWithOwner ==
  [][\A c \in children' \ children :
       c.name[1] \in Four =>
         /\ c.owner = c.name[2]
         /\ \E w \in Workers :
              /\ InCycle(w) /\ item[w] = c.owner
              /\ Len(ops'[w]) = Len(ops[w]) + 1
              /\ ops'[w][Len(ops'[w])] = <<"create", c.name[1], "ok">>]_vars

\* C26 witness: a cycle has created all four children, each owned by its
\* Revision.
C26_Witness ==
  \E w \in Workers :
    /\ AtEnd(w, "create")
    /\ \A k \in Four :
         /\ Child(k, item[w], item[w]) \in children
         /\ \E i \in 1..Len(ops[w]) : ops[w][i] = <<"create", k, "ok">>

\* C27: a worker that has left its loop did so with the queue shut down; the
\* end of an item's processing, with an error or for an invalid item as well,
\* takes the worker back to Get; and once the queue is shut down every worker
\* that was started leaves its loop (unless a panic ends the process first;
\* "off" is a worker that Run never started).
C27_ExitOnlyOnShutdown ==
  /\ [](\A w \in Workers : pc[w] = "exit" => workqueue.shuttingDown)
  /\ [][\A w \in Workers : (pc[w] = "done" /\ pc'[w] # "done") => pc'[w] = "get"]_vars
  /\ workqueue.shuttingDown
       ~> (crashed \/ \A w \in Workers : pc[w] \in {"off", "exit"})

\* C27 witness: the workers have been through an invalid item and a cycle
\* that returned an error, and after the shutdown all have left their loops.
C27_Witness ==
  /\ lastCycle[NotAString].path = "invalid"
  /\ \E k \in Revisions : lastCycle[k].failed
  /\ workqueue.shuttingDown /\ ~crashed
  /\ \A w \in Workers : pc[w] = "exit"

\* C28: what ValidateContainerConcurrency returned for the cases of the
\* claim: a value below 0 or above the maximum is an invalid value of
\* containerConcurrency; 1 with Multi and 0 with Single are a multiple-one-of
\* error on containerConcurrency and concurrencyModel; 1 with Single or no
\* model and 0 with Multi or no model are no error.
C28_ValidateContainerConcurrency ==
  lastCall.fn = "ValidateContainerConcurrency" =>
    LET cc == lastCall.arg[1]
        cm == lastCall.arg[2]
        got == lastCall.ret[1]
    IN /\ (cc < 0 \/ cc > 1000) =>
            /\ got.message = "invalid value"
            /\ got.paths = <<"containerConcurrency">>
            /\ got.details = ToString(cc)
       /\ ((cc = 1 /\ cm = "Multi") \/ (cc = 0 /\ cm = "Single")) =>
            /\ got.message = "expected exactly one, got both"
            /\ got.paths = <<"containerConcurrency", "concurrencyModel">>
       /\ ((cc = 1 /\ cm \in {"Single", ""}) \/ (cc = 0 /\ cm \in {"Multi", ""})) =>
            got = NoFieldError
       /\ (cc = 1000 /\ cm = "") => got = NoFieldError

\* C28 witness: the function was called with 0 and Single and returned the
\* multiple-one-of error.
C28_Witness ==
  /\ lastCall.fn = "ValidateContainerConcurrency"
  /\ lastCall.arg = <<0, "Single">>
  /\ lastCall.ret[1].paths = <<"containerConcurrency", "concurrencyModel">>

\* C29: what CheckImmutableFields returned: no error for an original that is
\* a Revision with the same spec, the immutable-fields error on path spec for
\* one whose image, resources or concurrency model differ, and the type error
\* for an original that is no Revision.
C29_CheckImmutableFields ==
  lastCall.fn = "CheckImmutableFields" =>
    LET new == lastCall.arg[1]
        old == lastCall.arg[2]
        got == lastCall.ret[1]
    IN IF old = notARevision
       THEN got.message = "The provided original was not a Revision"
       ELSE IF /\ old.spec.image = new.spec.image
               /\ old.spec.cpu = new.spec.cpu
               /\ old.spec.model = new.spec.model
       THEN got = NoFieldError
       ELSE /\ got.message = "Immutable fields changed (-old +new)"
            /\ got.paths = <<"spec">>

\* C29 witness: the function was called with an original that differs in the
\* concurrency model alone and returned the error on spec.
C29_Witness ==
  /\ lastCall.fn = "CheckImmutableFields"
  /\ lastCall.arg[2] # notARevision
  /\ lastCall.arg[1].spec.model # lastCall.arg[2].spec.model
  /\ lastCall.arg[1].spec.image = lastCall.arg[2].spec.image
  /\ lastCall.arg[1].spec.cpu = lastCall.arg[2].spec.cpu
  /\ lastCall.ret[1].paths = <<"spec">>

\* C30: a worker is started only once the informer has synced; when Run has
\* returned an error no worker was started and no cycle has run, and Run
\* returns without having started the workers only with an error; and
\* whenever Run has returned the queue is shut down.
C30_NoWorkerBeforeSync ==
  /\ (\E w \in Workers : pc[w] # "off") => (synced /\ run # "waitsync")
  /\ runErr # Nil =>
       /\ run = "returned"
       /\ \A w \in Workers : pc[w] = "off"
       /\ \A k \in Items : lastCycle[k].path = "none"
  /\ (run = "returned" /\ \A w \in Workers : pc[w] = "off") => runErr # Nil
  /\ run = "returned" => workqueue.shuttingDown

\* C30 witness: the stop signal came before the informer had synced: Run has
\* returned the error with the queue shut down, no worker runs, and the
\* Revision's notification, delivered since, found the queue closed.
C30_Witness ==
  /\ run = "returned" /\ runErr # Nil /\ workqueue.shuttingDown
  /\ \A w \in Workers : pc[w] = "off"
  /\ \E r \in Revisions :
       /\ revCache[r].exists /\ ~pendingEv[r]
       /\ r \notin workqueue.waiting /\ ~Queued(r)

C32_CacheUntouchedByCycle ==
  [][\A r \in Revisions :
       ~Delivered(r) => Status(revCache'[r]) = Status(revCache[r])]_vars

\* Nothing is left to do: no notification is to be delivered, no key is in the
\* queue or in its delay stage, and no worker is inside a cycle. Every write
\* to the store is a step of a cycle, so none follows while this lasts.
Quiescent ==
  /\ \A r \in Revisions : ~pendingEv[r] /\ r \notin workqueue.waiting
  /\ workqueue.queue = <<>>
  /\ \A w \in Workers : ~InCycle(w)

\* C33: the reconciler's status write comes back as an update notification
\* and enqueues the key again, yet while no other client changes a Revision,
\* no call on the store fails and the controller is not stopped, the loop
\* ends: from some point on the queue is empty, no worker is inside a cycle
\* and the store is written no more.
C33_Quiescence ==
  /\ <>[](stopCh \/ faults > 0 \/ externals > 0 \/ Quiescent)
  /\ <>[][stopCh \/ faults > 0 \/ externals > 0
            \/ (revStore' = revStore /\ children' = children)]_vars

\* C33 witness: a create cycle made the children and wrote the status, the
\* notification of that write was delivered and put the key into the queue
\* again, the cycle it caused had the same status to write, and nothing is
\* left to do.
C33_Witness ==
  \E r \in Revisions :
    /\ ~stopCh /\ faults = 0 /\ externals = 0
    /\ Quiescent
    /\ Present(children, "pod", r)
    /\ revStore[r].conds = Ready("Deploying")
    /\ revCache[r] = revStore[r]
    /\ lastCycle[r].path = "create" /\ ~lastCycle[r].failed
    /\ lastCycle[r].wrote = <<Status(revStore[r])>>
    /\ lastCycle[r].calls = FinishCalls(Nil)

\* The one Ready condition with status False and the given reason.
NotReady(reason) == <<Condition("Ready", "False", reason)>>

\* C34: every status a cycle writes has the one condition Ready=False with
\* reason Deploying when the cycle saw no deletion marker and with reason
\* Inactive when it saw the marker; and the conditions of a stored Revision
\* are never anything but none, that Deploying or that Inactive condition,
\* whatever children exist: Ready=True is never written.
C34_OnlyDeployingOrInactive ==
  /\ \A w \in Workers : \A i \in 1..Len(res[w].wrote) :
       res[w].wrote[i].conds =
         NotReady(IF u[w].marker THEN "Inactive" ELSE "Deploying")
  /\ \A r \in Revisions :
       /\ revStore[r].conds \in {<<>>, NotReady("Deploying"), NotReady("Inactive")}
       /\ \A i \in 1..Len(lastCycle[r].wrote) :
            lastCycle[r].wrote[i].conds =
              NotReady(IF lastCycle[r].path = "delete" THEN "Inactive"
                       ELSE "Deploying")

\* C34 witness: a create cycle wrote Deploying; the deletion marker was set
\* and the delete cycle that saw it has written Inactive.
C34_Witness ==
  \E w \in Workers :
    /\ AtEnd(w, "delete") /\ u[w].marker
    /\ Len(res[w].wrote) = 1
    /\ res[w].wrote[1].conds = NotReady("Inactive")
    /\ revStore[item[w]].conds = NotReady("Inactive")
    /\ lastCycle[item[w]].path = "create"
    /\ Len(lastCycle[item[w]].wrote) = 1
    /\ lastCycle[item[w]].wrote[1].conds = NotReady("Deploying")

====
